---- MODULE Spec2Model ----
(***************************************************************************)
(* Model of the sunrisemovement/elements custom elements:                  *)
(*   - StaticMap (tile projection, tile grid, canvas compositing and the  *)
(*     element's connectedCallback),                                       *)
(*   - the iframe-based ActionNetwork element,                             *)
(*   - the inline (script/div scaffold) ActionNetwork element.             *)
(*                                                                         *)
(* Numbers.  Map positions are doubles in the source.  Here a position is  *)
(* an integer count of 1/Unit of the quantity (fixed point), so that       *)
(* Math.trunc and the sub-tile pixel offsets are computed, not assumed.    *)
(* Longitudes are whole degrees, for which (lon + 180) / 360 is exact in   *)
(* this representation; the Mercator ordinate is tabulated for the         *)
(* latitudes the model uses (MercatorY).                                   *)
(***************************************************************************)
EXTENDS Integers, Sequences, FiniteSets, TLC

VARIABLES
    attrs,          \* StaticMap: the element's attributes (name -> string)
    connected,      \* StaticMap: whether the element is in a document
    adopted,        \* whether ShadowRoot.adoptedStyleSheets exists in this browser
    calls,          \* StaticMap: the activations of connectedCallback, in order
    renderRoot,     \* StaticMap: the children of the shadow root, in order
    frame,          \* iframe-based ActionNetwork element
    widget          \* inline ActionNetwork element

vars == <<attrs, connected, adopted, calls, renderRoot, frame, widget>>

(***************************************************************************)
(* Bounds of the model.                                                    *)
(***************************************************************************)
\* A tile fetch may settle before an earlier-started fetch of the same create
\* call only when it was started at most this many fetches after it.
MaxOvertake == 2
\* At most this many tile fetches of one create call fail.
MaxFailures == 1
\* At most this many connectedCallback activations of one StaticMap.
MaxCalls == 2

(***************************************************************************)
(* Attribute strings and their parsing.                                    *)
(***************************************************************************)
\* getAttribute returns null for an attribute that is not set.
NoAttr == "null"

LatAttrs == {NoAttr, "-89", "45", "89"}
LonAttrs == {NoAttr, "-180", "45", "179"}
ZoomAttrs == {NoAttr, "3"}

\* parseFloat / parseInt of the attribute strings the model uses; a string
\* that is no number parses to NaN (modelled by the caller's "|| 0").
parseNumber(s) ==
    CASE s = "-180" -> -180
      [] s = "-89"  -> -89
      [] s = "0"    -> 0
      [] s = "2"    -> 2
      [] s = "3"    -> 3
      [] s = "45"   -> 45
      [] s = "89"   -> 89
      [] s = "179"  -> 179
      [] OTHER      -> 0

\* get latitude / longitude / zoom: parse(getAttribute(name) || '0') || 0
getNumber(as, name) ==
    parseNumber(IF as[name] = NoAttr THEN "0" ELSE as[name])

(***************************************************************************)
(* Projection (Web Mercator) in fixed point.                               *)
(***************************************************************************)
Unit == 360 * 4096

\* Math.trunc(a / b) for b > 0: rounds toward zero.
Trunc(a, b) == IF a >= 0 THEN a \div b ELSE -((-a) \div b)

RECURSIVE Pow2(_)
Pow2(k) == IF k <= 0 THEN 1 ELSE 2 * Pow2(k - 1)

numTiles(zoom) == Pow2(zoom)

\* (1 - ln(tan(lat) + sec(lat)) / pi) / 2 in units of 1/Unit, for the
\* latitudes of LatAttrs (and 0, the default).
MercatorY(lat) ==
    CASE lat = -89 -> 1849996
      [] lat = 0   -> 737280
      [] lat = 45  -> 530436
      [] lat = 89  -> -375436

latLonToRelativePos(lat, lon) ==
    [x |-> (lon + 180) * (Unit \div 360), y |-> MercatorY(lat)]

latLonToPos(lat, lon, zoom) ==
    LET n == numTiles(zoom)
        rel == latLonToRelativePos(lat, lon)
    IN  [x |-> n * rel.x, y |-> n * rel.y]

tilePos(lat, lon, zoom) ==
    LET pos == latLonToPos(lat, lon, zoom)
    IN  [x |-> Trunc(pos.x, Unit), y |-> Trunc(pos.y, Unit)]

tileWidth == 256
tileHeight == 256

\* The URL of a tile, as the triple that distinguishes it.
tileUrl(x, y, z) == <<z, x, y>>

(***************************************************************************)
(* Range and the tile grid.                                                *)
(***************************************************************************)
\* A half-open range: what Range would yield with "i < this.max".
RangeHalfOpen(min, max) == [i \in 1..(max - min) |-> min + i - 1]

\* [...new Range(min, max)]: the iterator yields min, min+1, ..., max.
Range(min, max) == [i \in 1..(max - min + 1) |-> min + i - 1]

Floor2(n) == n \div 2
Ceil2(n) == (n + 1) \div 2

tilesX == 4
tilesY == 4

xRow == Range(-Floor2(tilesX), Ceil2(tilesX))
yRow == Range(-Floor2(tilesY), Ceil2(tilesY))

imageWidth == tilesX * tileWidth
imageHeight == tilesY * tileHeight

\* The fill colour of the canvas before any tile is drawn.
fillStyle == <<"#fff">>

(***************************************************************************)
(* The canvas.  The pixels are stored run-length encoded: xs and ys are    *)
(* the pixel columns and rows at which a run may start (0, and the edges   *)
(* of the rectangles create draws), and px gives the colour of the run     *)
(* starting at each (x, y) of xs \X ys.  Every fill and draw of create     *)
(* covers whole runs, so the colour of every pixel is represented.         *)
(***************************************************************************)
\* Draw positions with the sub-tile offset added instead of subtracted.
drawPosAdd(colOffset, rowOffset, latCenterDiff, lonCenterDiff) ==
    [x |-> colOffset * tileWidth + latCenterDiff,
     y |-> rowOffset * tileHeight + lonCenterDiff]

\* Draw positions whose tiles are spaced half a tile apart.
drawPosOverlap(colOffset, rowOffset, latCenterDiff, lonCenterDiff) ==
    [x |-> colOffset * (tileWidth \div 2) - latCenterDiff,
     y |-> rowOffset * (tileHeight \div 2) - lonCenterDiff]

\* Where the tile at (colOffset, rowOffset) is drawn:
\* (colOffset * tileWidth - latCenterDiff, rowOffset * tileHeight - lonCenterDiff)
drawPos(colOffset, rowOffset, latCenterDiff, lonCenterDiff) ==
    [x |-> colOffset * tileWidth - latCenterDiff,
     y |-> rowOffset * tileHeight - lonCenterDiff]

InRect(px, py, x, y, w, h) ==
    /\ x <= px /\ px < x + w
    /\ y <= py /\ py < y + h

createCanvas(width, height, xs, ys) ==
    [width |-> width, height |-> height, xs |-> xs, ys |-> ys,
     px |-> [p \in xs \X ys |-> <<"transparent">>]]

fillRect(cv, colour, x, y, w, h) ==
    [cv EXCEPT !.px = [p \in DOMAIN cv.px |->
        IF InRect(p[1], p[2], x, y, w, h) THEN colour ELSE cv.px[p]]]

\* drawImage that paints only the left half of the tile image.
drawImageHalf(cv, img, x, y) ==
    [cv EXCEPT !.px = [p \in DOMAIN cv.px |->
        IF InRect(p[1], p[2], x, y, tileWidth \div 2, tileHeight) THEN img ELSE cv.px[p]]]

\* drawImage(i, x, y) of a decoded tile image (tileWidth x tileHeight pixels).
drawImage(cv, img, x, y) ==
    [cv EXCEPT !.px = [p \in DOMAIN cv.px |->
        IF InRect(p[1], p[2], x, y, tileWidth, tileHeight) THEN img ELSE cv.px[p]]]

\* The start of the run that holds pixel column (or row) v.
RunStart(starts, v) == CHOOSE s \in starts : s <= v /\ \A t \in starts : t <= v => t <= s

\* The colour of pixel (x, y) of the canvas.
PixelAt(cv, x, y) == cv.px[<<RunStart(cv.xs, x), RunStart(cv.ys, y)>>]

(***************************************************************************)
(* create: the synchronous part, up to "await Promise.all(promises)".      *)
(***************************************************************************)
\* The grid of tile addresses around the centre tile (xOffset, yOffset),
\* row by row.
tileGrid(xOffset, yOffset) ==
    [r \in 1..Len(yRow) |-> [c \in 1..Len(xRow) |->
        [x |-> xOffset + xRow[c], y |-> yOffset + yRow[r]]]]

\* The async function started for each tile, in the order of promises.push:
\* its arguments (tile, colOffset, rowOffset) and the state of its promise,
\* "pending", "drawn" (fulfilled) or "failed" (rejected).
tileJobs(tiles) ==
    LET ncols == IF Len(tiles) = 0 THEN 0 ELSE Len(tiles[1])
    IN  [k \in 1..(Len(tiles) * ncols) |->
            LET rowOffset == (k - 1) \div ncols
                colOffset == (k - 1) % ncols
            IN  [tile |-> tiles[rowOffset + 1][colOffset + 1],
                 colOffset |-> colOffset,
                 rowOffset |-> rowOffset,
                 state |-> "pending"]]

createStart(lat, lon, z) ==
    LET offset == tilePos(lat, lon, z)
        absolute == latLonToPos(lat, lon, z)
        latCenterDiff == Trunc((absolute.x - offset.x * Unit) * tileWidth, Unit)
        lonCenterDiff == Trunc((absolute.y - offset.y * Unit) * tileHeight, Unit)
        jobs == tileJobs(tileGrid(offset.x, offset.y))
        edgesX == {drawPos(jobs[k].colOffset, jobs[k].rowOffset,
                           latCenterDiff, lonCenterDiff).x + d :
                       k \in DOMAIN jobs, d \in {0, tileWidth}}
        edgesY == {drawPos(jobs[k].colOffset, jobs[k].rowOffset,
                           latCenterDiff, lonCenterDiff).y + d :
                       k \in DOMAIN jobs, d \in {0, tileHeight}}
        xs == {0} \cup (edgesX \cap (0..(imageWidth - 1)))
        ys == {0} \cup (edgesY \cap (0..(imageHeight - 1)))
    IN  [lat |-> lat, lon |-> lon, zoom |-> z,
         xOffset |-> offset.x, yOffset |-> offset.y,
         latCenterDiff |-> latCenterDiff, lonCenterDiff |-> lonCenterDiff,
         canvas |-> fillRect(createCanvas(imageWidth, imageHeight, xs, ys),
                             fillStyle, 0, 0, imageWidth, imageHeight),
         promises |-> jobs,
         pc |-> "create"]

\* The tile jobs of a create call.
jobsOf(call) == call.promises

(***************************************************************************)
(* StaticMap.                                                              *)
(***************************************************************************)
latitude == getNumber(attrs, "latitude")
longitude == getNumber(attrs, "longitude")
zoom == getNumber(attrs, "zoom")
iconColor == IF attrs["icon-color"] = NoAttr THEN "black" ELSE attrs["icon-color"]

Node(tag, call, color) == [tag |-> tag, call |-> call, color |-> color]

\* querySelector('.icon').style.setProperty('--icon-color', iconColor): the
\* first icon of the shadow root, in tree order.
applyIconColor(children) ==
    LET icons == {j \in DOMAIN children : children[j].tag = "icon"}
        first == CHOOSE j \in icons : \A m \in icons : j <= m
    IN  [children EXCEPT ![first].color = iconColor]

\* connectedCallback from "this.renderRoot.appendChild(canvas)" on.
appendMap(root, i) ==
    [root EXCEPT !.children =
        applyIconColor(Append(Append(@, Node("canvas", i, "")), Node("icon", 0, "")))]

\* The element is inserted into a document: connectedCallback runs create
\* up to its await.
connectedCallback ==
    /\ ~connected
    /\ Len(calls) < MaxCalls
    /\ connected' = TRUE
    /\ calls' = Append(calls, createStart(latitude, longitude, zoom))
    /\ UNCHANGED <<attrs, adopted, renderRoot, frame, widget>>

\* The element is removed from its document; StaticMap defines no
\* disconnectedCallback.
Disconnect ==
    /\ connected
    /\ connected' = FALSE
    /\ UNCHANGED <<attrs, adopted, calls, renderRoot, frame, widget>>

\* set latitude / longitude / zoom; StaticMap defines no
\* attributeChangedCallback.
setAttribute(name, value) ==
    /\ attrs[name] # value
    /\ attrs' = [attrs EXCEPT ![name] = value]
    /\ UNCHANGED <<connected, adopted, calls, renderRoot, frame, widget>>

\* A create call that fulfils as soon as one tile is drawn (Promise.any).
anyFulfilled(ps) == \E j \in DOMAIN ps : ps[j].state = "drawn"

\* await Promise.all(promises) goes on when every promise has fulfilled.
allFulfilled(ps) == \A j \in DOMAIN ps : ps[j].state = "drawn"

CanSettle(i, k) ==
    /\ i \in DOMAIN calls
    /\ k \in DOMAIN calls[i].promises
    /\ calls[i].promises[k].state = "pending"
    /\ \A j \in 1..(k - MaxOvertake - 1) : calls[i].promises[j].state # "pending"

\* i.decode() of tile k of call i fulfils: the tile is drawn; when it was the
\* last one, Promise.all fulfils, create returns and connectedCallback goes on.
TileDecoded(i, k) ==
    /\ CanSettle(i, k)
    /\ LET p == jobsOf(calls[i])[k]
           at == drawPos(p.colOffset, p.rowOffset,
                         calls[i].latCenterDiff, calls[i].lonCenterDiff)
           img == tileUrl(p.tile.x, p.tile.y, calls[i].zoom)
           drawn == [calls EXCEPT ![i].canvas = drawImage(@, img, at.x, at.y),
                                  ![i].promises[k].state = "drawn"]
       IN  IF /\ calls[i].pc = "create"
              /\ allFulfilled(drawn[i].promises)
           THEN IF adopted
                THEN /\ calls' = [drawn EXCEPT ![i].pc = "replace"]
                     /\ UNCHANGED renderRoot
                ELSE /\ calls' = [drawn EXCEPT ![i].pc = "done"]
                     /\ renderRoot' = appendMap(
                            [renderRoot EXCEPT !.children = Append(@, Node("style", 0, ""))], i)
           ELSE /\ calls' = drawn
                /\ UNCHANGED renderRoot
    /\ UNCHANGED <<attrs, connected, adopted, frame, widget>>

\* A tile failure that is recorded but never rejects create.
TileFailedSwallowed(i, k) ==
    /\ CanSettle(i, k)
    /\ Cardinality({j \in DOMAIN calls[i].promises :
                       calls[i].promises[j].state = "failed"}) < MaxFailures
    /\ calls' = [calls EXCEPT ![i].promises[k].state = "failed"]
    /\ UNCHANGED <<attrs, connected, adopted, renderRoot, frame, widget>>

\* i.decode() of tile k of call i rejects: the first rejection rejects
\* Promise.all, create and connectedCallback.
TileFailed(i, k) ==
    /\ CanSettle(i, k)
    /\ Cardinality({j \in DOMAIN calls[i].promises :
                       calls[i].promises[j].state = "failed"}) < MaxFailures
    /\ calls' = [calls EXCEPT ![i].promises[k].state = "failed",
                              ![i].pc = IF @ = "create" THEN "rejected" ELSE @]
    /\ UNCHANGED <<attrs, connected, adopted, renderRoot, frame, widget>>

\* sheet.replace(styles) fulfils: the rest of connectedCallback runs.
SheetReplaced(i) ==
    /\ i \in DOMAIN calls
    /\ calls[i].pc = "replace"
    /\ calls' = [calls EXCEPT ![i].pc = "done"]
    /\ renderRoot' = appendMap([renderRoot EXCEPT !.adoptedStyleSheets = 1], i)
    /\ UNCHANGED <<attrs, connected, adopted, frame, widget>>


(***************************************************************************)
(* Action URLs (both ActionNetwork elements).                              *)
(***************************************************************************)
\* The values the action attribute takes in the model.
ActionUrls ==
    {"https://actionnetwork.org/events/e1",
     "https://actionnetwork.org/forms/f1",
     "https://actionnetwork.org/event_campaigns/c1",
     "https://actionnetwork.org/events",
     "not a url"}

NoAction == [type |-> "null", id |-> "null"]

\* new URL(url).pathname.split('/'): <<>> stands for "new URL throws".
pathnameSplit(url) ==
    CASE url = "https://actionnetwork.org/events/e1" -> <<"", "events", "e1">>
      [] url = "https://actionnetwork.org/forms/f1" -> <<"", "forms", "f1">>
      [] url = "https://actionnetwork.org/event_campaigns/c1" -> <<"", "event_campaigns", "c1">>
      [] url = "https://actionnetwork.org/events" -> <<"", "events">>
      [] OTHER -> <<>>

(***************************************************************************)
(* The iframe-based ActionNetwork element.                                 *)
(***************************************************************************)
\* Action.parse of the iframe-based element: events and forms only.
frameParse(url) ==
    LET split == pathnameSplit(url)
    IN  IF split = <<>> THEN NoAction
        ELSE LET segments == Tail(split)
             IN  IF Len(segments) # 2 THEN NoAction
                 ELSE CASE segments[1] = "events" -> [type |-> "event", id |-> segments[2]]
                        [] segments[1] = "forms" -> [type |-> "form", id |-> segments[2]]
                        [] OTHER -> NoAction

\* At most this many connectedCallback activations of one ActionNetwork.
MaxConnects == 2
\* At most this many animation-frame callbacks are scheduled at a time.
MaxFrames == 2

\* No value has been assigned to the action property yet.
Unassigned == "unassigned"

\* The guard of "set action": typeof value !== 'string' || value !== null
\* (null is NoAttr here, every other value is a string).
setActionReturns(value) == (value = NoAttr) \/ (value # NoAttr)

NoIframe == [tag |-> "none", src |-> NoAction, load |-> FALSE, message |-> FALSE, height |-> "null"]

frameInit ==
    [connected |-> FALSE,
     connects |-> 0,               \* connectedCallback activations so far
     action |-> NoAttr,            \* the action attribute
     _action |-> NoAction,
     _iframe |-> NoIframe,         \* the iframe element, NoIframe for null
     _url |-> NoAction,            \* the document the object URL holds, NoAction for null
     raf |-> 0,                    \* scheduled () => this.setupIframe() callbacks
     styles |-> 0,                 \* <style> children of the shadow root
     attached |-> FALSE,           \* whether _iframe is a child of the shadow root
     assigned |-> Unassigned]      \* the value last given to "set action"

\* tearDownIframe, on the element's record (revoking the object URL changes
\* nothing the element reads again).
tearDownIframe(f) ==
    [f EXCEPT !._iframe = NoIframe,
              !.attached = IF f._iframe # NoIframe THEN FALSE ELSE @]

\* setupIframe, on the element's record.
setupIframe(f) ==
    IF f._action = NoAction THEN f
    ELSE LET made == IF f._iframe = NoIframe
                     THEN [f EXCEPT !._iframe = [NoIframe EXCEPT !.tag = "iframe"],
                                    !.attached = TRUE]
                     ELSE f
         IN  [made EXCEPT !._iframe.load = TRUE,
                          !._url = f._action,
                          !._iframe.src = f._action]

\* The action attribute changes to v (NoAttr: it is removed) and
\* attributeChangedCallback('action', old, v) runs.
frameChanged(f0, v) ==
    LET f == [f0 EXCEPT !.action = v]
    IN  IF v # NoAttr
        THEN LET g == [f EXCEPT !._action = frameParse(v)]
             IN  IF g._action # NoAction
                 THEN [g EXCEPT !.raf = @ + 1]
                 ELSE tearDownIframe(g)
        ELSE tearDownIframe([f EXCEPT !._action = NoAction])

frameAttributeChanged(v) ==
    /\ frameChanged(frame, v).raf <= MaxFrames
    /\ frame' = frameChanged(frame, v)
    /\ UNCHANGED <<attrs, connected, adopted, calls, renderRoot, widget>>

\* el.action = value, on the iframe-based element.
frameSetAction(value) ==
    /\ LET f == [frame EXCEPT !.assigned = value]
       IN  IF setActionReturns(value)
           THEN frame' = f
           ELSE /\ frameChanged(f, value).raf <= MaxFrames
                /\ frame' = frameChanged(f, value)
    /\ UNCHANGED <<attrs, connected, adopted, calls, renderRoot, widget>>

\* A callback given to window.requestAnimationFrame runs.
frameAnimationFrame ==
    /\ frame.raf > 0
    /\ frame' = setupIframe([frame EXCEPT !.raf = @ - 1])
    /\ UNCHANGED <<attrs, connected, adopted, calls, renderRoot, widget>>

frameConnectedCallback ==
    /\ ~frame.connected
    /\ frame.connects < MaxConnects
    /\ LET f == IF frame.action # NoAttr
                THEN [frame EXCEPT !._action = frameParse(frame.action)]
                ELSE frame
       IN  frame' = setupIframe([f EXCEPT !.connected = TRUE,
                                          !.connects = @ + 1,
                                          !.styles = @ + 1])
    /\ UNCHANGED <<attrs, connected, adopted, calls, renderRoot, widget>>

frameDisconnectedCallback ==
    /\ frame.connected
    /\ frame' = tearDownIframe([frame EXCEPT !.connected = FALSE])
    /\ UNCHANGED <<attrs, connected, adopted, calls, renderRoot, widget>>

\* The iframe's load event: onIframeLoad listens for messages of its window.
onIframeLoad ==
    /\ frame._iframe # NoIframe
    /\ frame._iframe.load
    /\ frame.attached
    /\ ~frame._iframe.message
    /\ frame' = [frame EXCEPT !._iframe.message = TRUE]
    /\ UNCHANGED <<attrs, connected, adopted, calls, renderRoot, widget>>

\* A {type: 'resize'} message of the iframe's window: resizeIframe.
onIframeMessage ==
    /\ frame._iframe # NoIframe
    /\ frame._iframe.message
    /\ frame._iframe.height = "null"
    /\ frame' = [frame EXCEPT !._iframe.height = "scrollHeight"]
    /\ UNCHANGED <<attrs, connected, adopted, calls, renderRoot, widget>>

(***************************************************************************)
(* The inline ActionNetwork element (link, style, script and div).         *)
(***************************************************************************)
\* Action.parse of the inline element: events, forms and event campaigns.
widgetParse(url) ==
    LET split == pathnameSplit(url)
    IN  IF split = <<>> THEN NoAction
        ELSE LET segments == Tail(split)
             IN  IF Len(segments) # 2 THEN NoAction
                 ELSE CASE segments[1] = "events" -> [type |-> "event", id |-> segments[2]]
                        [] segments[1] = "forms" -> [type |-> "form", id |-> segments[2]]
                        [] segments[1] = "event_campaigns" ->
                               [type |-> "campaign", id |-> segments[2]]
                        [] OTHER -> NoAction

linkType(a) == IF a.type = "campaign" THEN "event_campaign" ELSE a.type

containerId(a) == <<"can", linkType(a), "area", a.id>>

scriptUrl(a, layout) ==
    [path |-> <<"widgets", "v3", linkType(a), a.id>>,
     format |-> "js", source |-> "widget",
     style |-> IF layout = "full" THEN "full" ELSE "null"]

containerClass(a) == a.type

ThemeAttrs == {NoAttr, "dark", "light", "blue"}
LayoutAttrs == {NoAttr, "full", "standard"}

\* get layout / get theme
widgetLayout(w) == IF w.attrs.layout \in {"full", "standard"} THEN w.attrs.layout ELSE "standard"
widgetTheme(w) == IF w.attrs.theme \in {"dark", "light"} THEN w.attrs.theme ELSE "light"

widgetInit ==
    [connected |-> FALSE,
     attrs |-> [action |-> NoAttr, theme |-> NoAttr, layout |-> NoAttr],
     _action |-> NoAction,
     children |-> <<>>,            \* the element's children, in order
     display |-> "",
     assigned |-> Unassigned]      \* the value last given to "set action"

\* The link, style, script and div connectedCallback appends for action a.
scaffold(a, layout, theme) ==
    << [tag |-> "link", href |-> <<"style-embed-whitelabel-v3.css">>],
       [tag |-> "style", id |-> containerId(a)],
       [tag |-> "script", src |-> scriptUrl(a, layout)],
       [tag |-> "div", id |-> containerId(a), className |-> <<containerClass(a), theme>>] >>

\* An attribute changes to v (NoAttr: it is removed) and
\* attributeChangedCallback(name, old, v) runs.
widgetChanged(w, name, v) ==
    [w EXCEPT
        !.attrs[name] = v,
        !._action = IF name = "action"
                    THEN (IF v # NoAttr THEN widgetParse(v) ELSE NoAction)
                    ELSE @]

widgetAttributeChanged(name, v) ==
    /\ widget' = widgetChanged(widget, name, v)
    /\ UNCHANGED <<attrs, connected, adopted, calls, renderRoot, frame>>

\* el.action = value, on the inline element.
widgetSetAction(value) ==
    /\ LET w == [widget EXCEPT !.assigned = value]
       IN  IF setActionReturns(value)
           THEN widget' = w
           ELSE widget' = widgetChanged(w, "action", value)
    /\ UNCHANGED <<attrs, connected, adopted, calls, renderRoot, frame>>

widgetConnectedCallback ==
    /\ ~widget.connected
    /\ LET w == IF widget.attrs.action # NoAttr
                THEN [widget EXCEPT !._action = widgetParse(widget.attrs.action),
                                    !.connected = TRUE]
                ELSE [widget EXCEPT !.connected = TRUE]
       IN  IF w._action = NoAction
           THEN widget' = w
           ELSE widget' = [w EXCEPT
                    !.children = @ \o scaffold(w._action, widgetLayout(w), widgetTheme(w)),
                    !.display = "block"]
    /\ UNCHANGED <<attrs, connected, adopted, calls, renderRoot, frame>>

widgetDisconnectedCallback ==
    /\ widget.connected
    /\ widget' = [widget EXCEPT !.connected = FALSE, !.children = <<>>]
    /\ UNCHANGED <<attrs, connected, adopted, calls, renderRoot, frame>>

NextWidget ==
    \/ \E v \in ActionUrls \cup {NoAttr} : widgetAttributeChanged("action", v)
    \/ \E v \in ThemeAttrs : widgetAttributeChanged("theme", v)
    \/ \E v \in LayoutAttrs : widgetAttributeChanged("layout", v)
    \/ widgetConnectedCallback
    \/ widgetDisconnectedCallback

InitActionNetwork ==
    /\ attrs \in [{"latitude", "longitude", "zoom", "icon-color"} -> {NoAttr}]
    /\ connected = FALSE
    /\ adopted = FALSE
    /\ calls = <<>>
    /\ renderRoot = [adoptedStyleSheets |-> 0, children |-> <<>>]
    /\ frame = frameInit
    /\ widget = widgetInit

NextFrame ==
    \/ \E v \in ActionUrls \cup {NoAttr} : frameAttributeChanged(v)
    \/ frameAnimationFrame
    \/ frameConnectedCallback
    \/ frameDisconnectedCallback
    \/ onIframeLoad
    \/ onIframeMessage

SpecFrame == InitActionNetwork /\ [][NextFrame]_vars

SpecWidget == InitActionNetwork /\ [][NextWidget]_vars

\* The two ActionNetwork elements whose action is given only through the
\* action property, while they are connected and disconnected.
NextSetter ==
    \/ \E v \in ActionUrls \cup {NoAttr} : widgetSetAction(v)
    \/ \E v \in ActionUrls \cup {NoAttr} : frameSetAction(v)
    \/ widgetConnectedCallback
    \/ widgetDisconnectedCallback
    \/ frameConnectedCallback
    \/ frameDisconnectedCallback

SpecSetter == InitActionNetwork /\ [][NextSetter]_vars

(***************************************************************************)
(* Specifications of StaticMap.                                            *)
(***************************************************************************)

InitMap ==
    /\ attrs \in [{"latitude", "longitude", "zoom", "icon-color"} -> {NoAttr}]
    /\ connected = FALSE
    /\ adopted \in BOOLEAN
    /\ calls = <<>>
    /\ renderRoot = [adoptedStyleSheets |-> 0, children |-> <<>>]
    /\ frame = frameInit
    /\ widget = widgetInit

\* One element, created with any of the attribute values of the model.
InitCreate ==
    /\ \E lat \in LatAttrs, lon \in LonAttrs, z \in ZoomAttrs :
          attrs = [n \in {"latitude", "longitude", "zoom", "icon-color"} |->
                     CASE n = "latitude" -> lat
                       [] n = "longitude" -> lon
                       [] n = "zoom" -> z
                       [] OTHER -> NoAttr]
    /\ connected = FALSE
    /\ adopted \in BOOLEAN
    /\ calls = <<>>
    /\ renderRoot = [adoptedStyleSheets |-> 0, children |-> <<>>]
    /\ frame = frameInit
    /\ widget = widgetInit

\* One connectedCallback whose tile fetches all succeed.
NextCreate ==
    \/ calls = <<>> /\ connectedCallback
    \/ \E i \in DOMAIN calls : \E k \in DOMAIN calls[i].promises : TileDecoded(i, k)
    \/ \E i \in DOMAIN calls : SheetReplaced(i)

SpecCreate == InitCreate /\ [][NextCreate]_vars

\* One connectedCallback whose tile fetches succeed or fail.
NextFetch ==
    \/ calls = <<>> /\ connectedCallback
    \/ \E i \in DOMAIN calls : \E k \in DOMAIN calls[i].promises : TileDecoded(i, k)
    \/ \E i \in DOMAIN calls : \E k \in DOMAIN calls[i].promises : TileFailed(i, k)
    \/ \E i \in DOMAIN calls : SheetReplaced(i)

SpecFetch == InitMap /\ [][NextFetch]_vars

\* The life of one StaticMap whose tile fetches succeed: it is connected,
\* disconnected and connected again, at any moment.
NextMap ==
    \/ connectedCallback
    \/ Disconnect
    \/ \E i \in DOMAIN calls : \E k \in DOMAIN calls[i].promises : TileDecoded(i, k)
    \/ \E i \in DOMAIN calls : SheetReplaced(i)

SpecMap == InitMap /\ [][NextMap]_vars

\* One connectedCallback of a StaticMap whose attributes are set, before or
\* after it is connected, through its latitude, longitude and zoom setters.
NextAttr ==
    \/ calls = <<>> /\ connectedCallback
    \/ \E c \in {<<"latitude", "45">>, <<"longitude", "45">>, <<"zoom", "3">>} :
          setAttribute(c[1], c[2])
    \/ \E i \in DOMAIN calls : \E k \in DOMAIN calls[i].promises : TileDecoded(i, k)
    \/ \E i \in DOMAIN calls : SheetReplaced(i)

SpecAttr == InitMap /\ [][NextAttr]_vars

(***************************************************************************)
(* Properties.                                                             *)
(***************************************************************************)
\* create has returned its canvas to connectedCallback.
Resolved(call) == call.pc \in {"replace", "done"}

Cols(call) == {jobsOf(call)[k].tile.x : k \in DOMAIN call.promises}
Rows(call) == {jobsOf(call)[k].tile.y : k \in DOMAIN call.promises}

\* The rectangle the specification gives for the cell at row r, column c.
CellRect(call, c, r) ==
    [x |-> c * tileWidth - call.latCenterDiff,
     y |-> r * tileHeight - call.lonCenterDiff,
     w |-> tileWidth, h |-> tileHeight]

Inside(px, py, rect) == InRect(px, py, rect.x, rect.y, rect.w, rect.h)

Disjoint(a, b) ==
    \/ a.x + a.w <= b.x \/ b.x + b.w <= a.x
    \/ a.y + a.h <= b.y \/ b.y + b.h <= a.y

\* Pixels of the raster that decide a statement about all of them: the starts
\* of the canvas' runs and the edges of the cells' rectangles.  Between two
\* neighbouring sample columns (rows) neither the colour of a pixel nor the
\* rectangles it lies in change.
SampleXs(call) ==
    (call.canvas.xs \cup
     {CellRect(call, jobsOf(call)[k].colOffset, 0).x + d :
         k \in DOMAIN call.promises, d \in {0, tileWidth}})
    \cap (0..(call.canvas.width - 1))
SampleYs(call) ==
    (call.canvas.ys \cup
     {CellRect(call, 0, jobsOf(call)[k].rowOffset).y + d :
         k \in DOMAIN call.promises, d \in {0, tileHeight}})
    \cap (0..(call.canvas.height - 1))

\* C1 (as stated): around the centre tile (x, y) the grid has the columns
\* x-2 .. x+1 and the rows y-2 .. y+1, 16 tiles in all.
C1_HalfOpenWindow ==
    \A i \in DOMAIN calls :
        /\ Cols(calls[i]) = (calls[i].xOffset - 2)..(calls[i].xOffset + 1)
        /\ Rows(calls[i]) = (calls[i].yOffset - 2)..(calls[i].yOffset + 1)
        /\ Len(calls[i].promises) = 16

\* C1 (amended): around the centre tile (x, y) the grid has the columns
\* x-2 .. x+2 and the rows y-2 .. y+2, that is the closed window
\* [-floor(n/2), ceil(n/2)] of offsets, and 25 tiles are fetched.
C1_ClosedWindow ==
    \A i \in DOMAIN calls :
        /\ Cols(calls[i]) =
              (calls[i].xOffset - Floor2(tilesX))..(calls[i].xOffset + Ceil2(tilesX))
        /\ Rows(calls[i]) =
              (calls[i].yOffset - Floor2(tilesY))..(calls[i].yOffset + Ceil2(tilesY))
        /\ Cardinality(Cols(calls[i])) = 5
        /\ Cardinality(Rows(calls[i])) = 5
        /\ Len(calls[i].promises) = 25

\* A create call around a centre tile away from the origin has drawn a tile.
C1_Witness ==
    \E i \in DOMAIN calls :
        /\ calls[i].xOffset > 0 /\ calls[i].yOffset > 0
        /\ \E k \in DOMAIN calls[i].promises : calls[i].promises[k].state = "drawn"

\* C2: when a tile's fetch or decode fails, create rejects, no raster is
\* returned to connectedCallback and no canvas of that call is appended to
\* the shadow root.
C2_FailureRejects ==
    \A i \in DOMAIN calls :
        (\E k \in DOMAIN calls[i].promises : calls[i].promises[k].state = "failed")
        => /\ calls[i].pc = "rejected"
           /\ \A n \in DOMAIN renderRoot.children :
                 ~(renderRoot.children[n].tag = "canvas" /\ renderRoot.children[n].call = i)

\* A tile in the middle of the grid has failed after a later tile was drawn,
\* and every other tile has been drawn.
C2_Witness ==
    \E i \in DOMAIN calls : \E k \in DOMAIN calls[i].promises :
        /\ 1 < k /\ k < Len(calls[i].promises)
        /\ calls[i].promises[k].state = "failed"
        /\ \A j \in DOMAIN calls[i].promises : j # k => calls[i].promises[j].state = "drawn"

\* C3 (as stated): once create has completed, by resolving or by rejecting,
\* none of its tile fetches is pending any more.
C3_CompletesAfterAllSettle ==
    \A i \in DOMAIN calls :
        calls[i].pc # "create"
        => \A k \in DOMAIN calls[i].promises : calls[i].promises[k].state # "pending"

\* C3 (amended): create resolves only after every one of its tiles has been
\* fetched and drawn, so that nothing is pending or drawn afterwards; it
\* rejects only after a tile has failed.
C3_ResolvesAfterAllDrawn ==
    \A i \in DOMAIN calls :
        /\ Resolved(calls[i])
           => \A k \in DOMAIN calls[i].promises : calls[i].promises[k].state = "drawn"
        /\ calls[i].pc = "rejected"
           => \E k \in DOMAIN calls[i].promises : calls[i].promises[k].state = "failed"

\* create has resolved and connectedCallback has appended its canvas.
C3_Witness ==
    \E i \in DOMAIN calls :
        /\ calls[i].pc = "done"
        /\ \E n \in DOMAIN renderRoot.children :
              renderRoot.children[n].tag = "canvas" /\ renderRoot.children[n].call = i

\* C4: the centre tile is one tile of the grid; its draw origin plus the
\* sub-tile offset (dx, dy) is the centre of the raster; the exact position
\* of the coordinate is less than one pixel from that centre; and once the
\* centre tile is drawn (dx, dy >= 0) the centre pixel shows it.
C4_CoordinateAtCentre ==
    \A i \in DOMAIN calls :
        LET call == calls[i]
            jobs == jobsOf(call)
            centre == {k \in DOMAIN jobs :
                          jobs[k].tile = [x |-> call.xOffset, y |-> call.yOffset]}
            pos == latLonToPos(call.lat, call.lon, call.zoom)
            cx == call.canvas.width \div 2
            cy == call.canvas.height \div 2
        IN  /\ Cardinality(centre) = 1
            /\ \A k \in centre :
                LET at == drawPos(jobs[k].colOffset, jobs[k].rowOffset,
                                  call.latCenterDiff, call.lonCenterDiff)
                    exactX == at.x * Unit + (pos.x - call.xOffset * Unit) * tileWidth
                    exactY == at.y * Unit + (pos.y - call.yOffset * Unit) * tileHeight
                IN  /\ at.x + call.latCenterDiff = cx
                    /\ at.y + call.lonCenterDiff = cy
                    /\ cx * Unit - Unit < exactX /\ exactX < cx * Unit + Unit
                    /\ cy * Unit - Unit < exactY /\ exactY < cy * Unit + Unit
                    /\ (/\ call.promises[k].state = "drawn"
                        /\ call.latCenterDiff >= 0 /\ call.lonCenterDiff >= 0)
                       => PixelAt(call.canvas, cx, cy) =
                             tileUrl(call.xOffset, call.yOffset, call.zoom)

\* The centre tile of a call with a sub-tile offset on both axes is drawn.
C4_Witness ==
    \E i \in DOMAIN calls : \E k \in DOMAIN calls[i].promises :
        /\ jobsOf(calls[i])[k].tile = [x |-> calls[i].xOffset, y |-> calls[i].yOffset]
        /\ calls[i].promises[k].state = "drawn"
        /\ calls[i].latCenterDiff > 0 /\ calls[i].lonCenterDiff > 0

\* C5: for a latitude in (-90, 90), a longitude in [-180, 180) and a zoom
\* >= 0, the centre tile and every tile of the grid have x and y in
\* [0, 2^zoom).
C5_TilesInRange ==
    \A i \in DOMAIN calls :
        LET call == calls[i]
            n == numTiles(call.zoom)
        IN  (/\ -90 < call.lat /\ call.lat < 90
             /\ -180 <= call.lon /\ call.lon < 180
             /\ call.zoom >= 0)
            => /\ call.xOffset \in 0..(n - 1)
               /\ call.yOffset \in 0..(n - 1)
               /\ \A k \in DOMAIN call.promises :
                     /\ jobsOf(call)[k].tile.x \in 0..(n - 1)
                     /\ jobsOf(call)[k].tile.y \in 0..(n - 1)

\* C6: when every tile fetch has succeeded and create has returned, the
\* raster is tilesX * tileWidth by tilesY * tileHeight pixels (1024 x 1024),
\* and for a sub-tile offset in [0, tileWidth) x [0, tileHeight) no pixel of
\* the raster inside a grid cell's rectangle still shows the fill colour.
C6_TileRegionsDrawn ==
    \A i \in DOMAIN calls :
        LET call == calls[i]
            jobs == jobsOf(call)
        IN  Resolved(call)
            => /\ call.canvas.width = tilesX * tileWidth
               /\ call.canvas.height = tilesY * tileHeight
               /\ call.canvas.width = 1024 /\ call.canvas.height = 1024
               /\ (/\ call.latCenterDiff \in 0..(tileWidth - 1)
                   /\ call.lonCenterDiff \in 0..(tileHeight - 1))
                  => \A x \in SampleXs(call), y \in SampleYs(call) :
                        (\E k \in DOMAIN jobs :
                            Inside(x, y, CellRect(call, jobs[k].colOffset, jobs[k].rowOffset)))
                        => PixelAt(call.canvas, x, y) # fillStyle

\* create has returned the raster of a call with a sub-tile offset on both axes.
C6_Witness ==
    \E i \in DOMAIN calls :
        /\ Resolved(calls[i])
        /\ calls[i].latCenterDiff \in 1..(tileWidth - 1)
        /\ calls[i].lonCenterDiff \in 1..(tileHeight - 1)

\* C8: the draw rectangles of two distinct cells of one create call are
\* disjoint, and at every moment each pixel of the raster shows the tile of
\* the one drawn cell whose rectangle holds it (the fill colour when there
\* is none): the raster depends on which tiles are drawn, not on the order
\* in which they were.
C8_DisjointDraws ==
    \A i \in DOMAIN calls :
        LET call == calls[i]
            jobs == jobsOf(call)
            at(k) == drawPos(jobs[k].colOffset, jobs[k].rowOffset,
                             call.latCenterDiff, call.lonCenterDiff)
            rect(k) == [x |-> at(k).x, y |-> at(k).y, w |-> tileWidth, h |-> tileHeight]
        IN  /\ \A k \in DOMAIN jobs :
                  /\ rect(k) = CellRect(call, jobs[k].colOffset, jobs[k].rowOffset)
                  /\ \A j \in 1..(k - 1) : Disjoint(rect(j), rect(k))
            /\ \A x \in SampleXs(call), y \in SampleYs(call) :
                  LET colour == PixelAt(call.canvas, x, y)
                      over == {k \in DOMAIN jobs :
                                  /\ jobs[k].state = "drawn"
                                  /\ LET p == at(k)
                                     IN  InRect(x, y, p.x, p.y, tileWidth, tileHeight)}
                  IN  /\ Cardinality(over) <= 1
                      /\ over = {} => colour = fillStyle
                      /\ \A k \in over :
                            colour = tileUrl(jobs[k].tile.x, jobs[k].tile.y, call.zoom)

\* A tile has been drawn before a tile that was started earlier.
C8_Witness ==
    \E i \in DOMAIN calls : \E j, k \in DOMAIN calls[i].promises :
        /\ j < k
        /\ calls[i].promises[j].state = "pending"
        /\ calls[i].promises[k].state = "drawn"
        /\ calls[i].latCenterDiff > 0

\* C7: every canvas in the shadow root was rendered from the current values
\* of the latitude, longitude and zoom attributes.
C7_CanvasFollowsAttributes ==
    \A n \in DOMAIN renderRoot.children :
        renderRoot.children[n].tag = "canvas"
        => /\ calls[renderRoot.children[n].call].lat = latitude
           /\ calls[renderRoot.children[n].call].lon = longitude
           /\ calls[renderRoot.children[n].call].zoom = zoom

\* C9: the shadow root holds at most one canvas and at most one icon.
C9_OneCanvasOneIcon ==
    /\ Cardinality({n \in DOMAIN renderRoot.children :
                       renderRoot.children[n].tag = "canvas"}) <= 1
    /\ Cardinality({n \in DOMAIN renderRoot.children :
                       renderRoot.children[n].tag = "icon"}) <= 1

\* C10: after disconnectedCallback has run, and until the next
\* connectedCallback, no iframe is attached to the shadow root.
C10_NoIframeWhileDisconnected ==
    (~frame.connected /\ frame.connects > 0) => ~frame.attached

\* C7, for the inline ActionNetwork element: the scaffold of a connected
\* element is the one of the current action, layout and theme attributes.
C7_ScaffoldFollowsAttributes ==
    (widget.connected /\ widget.children # <<>>)
    => /\ widget.attrs.action # NoAttr
       /\ widgetParse(widget.attrs.action) # NoAction
       /\ widget.children = scaffold(widgetParse(widget.attrs.action),
                                     widgetLayout(widget), widgetTheme(widget))

\* C11: once a value has been assigned to the action property, the action
\* attribute (which the getter returns) is that value, and is absent after
\* an assignment of null; for both ActionNetwork elements.
C11_SetterUpdatesAttribute ==
    /\ widget.assigned # Unassigned => widget.attrs.action = widget.assigned
    /\ frame.assigned # Unassigned => frame.action = frame.assigned
====
